---- MODULE Spec2Model ----
(***************************************************************************)
(* Model of the Google EC (GEC) firmware-update protocol of flashrom:      *)
(* the firmware-copy registry (fwcopy), the jump-to-copy reboot protocol,  *)
(* the read / erase / write operations with access-denied deferral, the    *)
(* prepare / need-2nd-pass / finish orchestration and the write-protect    *)
(* commands.  The handlers are those of the build without                  *)
(* SUPPORT_CHECKSUM; the gec_read, gec_block_erase and gec_write of the    *)
(* build with SUPPORT_CHECKSUM are modelled beside them (SpecChecksum).    *)
(*                                                                         *)
(* Every handler is one action.  What the transport answers to each        *)
(* command the handler issues is an input of the action (a "script": the   *)
(* status of the 1st, 2nd, ... command of the call).  The commands and     *)
(* delays of the last call are kept in `log`, its arguments and return     *)
(* value in `call`.                                                        *)
(*                                                                         *)
(* Flash addresses are small naturals, far below 2^32: no sum of the       *)
(* model wraps.                                                            *)
(***************************************************************************)
EXTENDS Integers, Sequences, FiniteSets, TLC

VARIABLES
    detected,             \* priv->detected
    fwcopy,               \* static struct fmap_area fwcopy[4], entries 1..3
    need_2nd_pass,        \* static int need_2nd_pass
    try_latest_firmware,  \* static int try_latest_firmware
    active,               \* device side: the copy the EC executes
    call,                 \* the last call: [op, a, b, m, ret]
    log,                  \* commands and delays issued by the last call
    pc,                   \* update driver: where the update run is
    pass,                 \* update driver: the erase/write pass, 1 or 2
    bsize,                \* update driver: the erase block size
    blk,                  \* update driver: the block the pass is at
    okblocks,             \* update driver: blocks erased and written so far
    denied1,              \* update driver: blocks denied in pass 1
    report,               \* what gec_wp_status printed in the last call
    wp,                   \* device side: write-protect range and enable value
    wpreq,                \* write-protect driver: the range it asked for
    idx                   \* stepwise gec_read / gec_write: the loop index i

vars == <<detected, fwcopy, need_2nd_pass, try_latest_firmware, active,
          call, log, pc, pass, bsize, blk, okblocks, denied1, report, wp,
          wpreq, idx>>

progvars == <<detected, fwcopy, need_2nd_pass, try_latest_firmware>>
wpvars == <<wp, wpreq>>
drivervars == <<pc, pass, bsize, blk, okblocks, denied1, wp, wpreq, idx>>

----------------------------------------------------------------------------
(* Bounds of the model *)

\* flash addresses handed to read / erase / write are 0..MaxAddr
MaxAddr == 4
\* lengths handed to read / erase / write are 0..MaxLen
MaxLen == 3
\* max_data_read / max_data_write of the programmer are 1..MaxData
MaxData == 2

----------------------------------------------------------------------------
(* Program constants *)

EC_LPC_IMAGE_UNKNOWN == 0
EC_LPC_IMAGE_RO == 1
EC_LPC_IMAGE_RW_A == 2
EC_LPC_IMAGE_RW_B == 3

EC_LPC_RESULT_SUCCESS == 0
EC_LPC_RESULT_INVALID_COMMAND == 1
EC_LPC_RESULT_ERROR == 2
EC_LPC_RESULT_INVALID_PARAM == 3
EC_LPC_RESULT_ACCESS_DENIED == 4

\* The value gec_block_erase and gec_write return for a denied command.  Its
\* number is defined outside these sources; all that matters is that it is
\* none of the lpc_status values.
ACCESS_DENIED == -7

\* enum lpc_status: what ec_command returns
Status == {EC_LPC_RESULT_SUCCESS, EC_LPC_RESULT_INVALID_COMMAND,
           EC_LPC_RESULT_ERROR, EC_LPC_RESULT_INVALID_PARAM,
           EC_LPC_RESULT_ACCESS_DENIED}

\* indices 1..3 of fwcopy[] and sections[]
Copies == {EC_LPC_IMAGE_RO, EC_LPC_IMAGE_RW_A, EC_LPC_IMAGE_RW_B}

\* const char *sections[4]
sections == [j \in 0..3 |->
    CASE j = EC_LPC_IMAGE_UNKNOWN -> "UNKNOWN SECTION"
      [] j = EC_LPC_IMAGE_RO -> "RO_SECTION"
      [] j = EC_LPC_IMAGE_RW_A -> "RW_SECTION_A"
      [] j = EC_LPC_IMAGE_RW_B -> "RW_SECTION_B"]

----------------------------------------------------------------------------
(* The transport: commands, delays, and who answers *)

\* one priv->ec_command(cmd, ...) call with its arguments and its status
Cmd(c, x, y, rc) == [cmd |-> c, a |-> x, b |-> y, rc |-> rc]

\* usleep(1000000) of gec_jump_copy
Sleep == [cmd |-> "usleep", a |-> 0, b |-> 0, rc |-> 0]

\* programmer_delay(1000) of verify_checksum
Delay == [cmd |-> "programmer_delay", a |-> 0, b |-> 0, rc |-> 0]

\* memcpy(readarr + i, r.data, size) of gec_read
Memcpy(i, size) == [cmd |-> "memcpy", a |-> i, b |-> size, rc |-> 0]

\* the commands of a log, delays and copies left out
Commands(l) ==
    SelectSeq(l, LAMBDA e : e.cmd \notin {"usleep", "programmer_delay",
                                          "memcpy"})

\* the statuses of the first n commands of a call
Scripts(n) == [1..n -> Status]

\* [x, x+n) and [y, y+m) have a byte in common
Intersects(x, n, y, m) == (x .. (x + n - 1)) \cap (y .. (y + m - 1)) # {}

\* a transport that answers the k-th command of a call with script[k], and
\* with success once the script is used up
ScriptTransport(script) == [kind |-> "script", script |-> script, act |-> 0]

\* a device that executes from copy act of its flash and answers a reboot
\* command with rebootrc
DeviceTransport(act, rebootrc) ==
    [kind |-> "device", script |-> <<rebootrc>>, act |-> act]

\* where the device keeps its three copies
DeviceLayout ==
    [j \in Copies |->
        CASE j = EC_LPC_IMAGE_RO -> [offset |-> 0, size |-> 2]
          [] j = EC_LPC_IMAGE_RW_A -> [offset |-> 2, size |-> 1]
          [] j = EC_LPC_IMAGE_RW_B -> [offset |-> 3, size |-> 1]]

\* the device denies exactly the erase and write commands that overlap the
\* copy it executes from
DeviceRc(tr, c, x, y) ==
    IF c = "REBOOT_EC" THEN tr.script[1]
    ELSE IF /\ c \in {"FLASH_ERASE", "FLASH_WRITE"}
            /\ Intersects(DeviceLayout[tr.act].offset,
                          DeviceLayout[tr.act].size, x, y)
    THEN EC_LPC_RESULT_ACCESS_DENIED
    ELSE EC_LPC_RESULT_SUCCESS

\* priv->ec_command(c, ...): the status of command c(x, y), sent by a call
\* that has issued log l so far
ec_command(tr, l, c, x, y) ==
    IF tr.kind = "device" THEN DeviceRc(tr, c, x, y)
    ELSE LET k == Len(Commands(l)) + 1 IN
         IF k \in DOMAIN tr.script THEN tr.script[k]
         ELSE EC_LPC_RESULT_SUCCESS

RECURSIVE DeviceAfter(_, _)
\* the device makes the named copy active on a successful reboot command
DeviceAfter(act, l) ==
    IF l = <<>> THEN act
    ELSE LET e == Head(l) IN
         DeviceAfter(IF e.cmd = "REBOOT_EC" /\ e.rc = EC_LPC_RESULT_SUCCESS
                     THEN e.a ELSE act, Tail(l))

Min(x, y) == IF x < y THEN x ELSE y

\* number of commands a chunked transfer of n bytes takes
NumChunks(n, maxlen) == (n + maxlen - 1) \div maxlen

----------------------------------------------------------------------------
(* Region registry *)

\* static storage: all zero
fwcopy_init == [j \in Copies |-> [offset |-> 0, size |-> 0, flags |-> 0]]

\* seeded fault: only the test that addr lies inside the region
invalidate_hit_addr_only(fw, addr, len) ==
    addr >= fw.offset /\ addr < fw.offset + fw.size

\* the intersection test of gec_invalidate_copy
invalidate_hit(fw, addr, len) ==
    \/ (addr >= fw.offset /\ addr < fw.offset + fw.size)
    \/ (fw.offset >= addr /\ fw.offset < addr + len)

\* seeded fault: a denial marks every copy stale, whatever the range
gec_invalidate_all(fw, addr, len) ==
    [j \in Copies |-> [fw[j] EXCEPT !.flags = 0]]

gec_invalidate_copy(fw, addr, len) ==
    [j \in Copies |->
        IF invalidate_hit(fw[j], addr, len)
        THEN [fw[j] EXCEPT !.flags = 0]
        ELSE fw[j]]

----------------------------------------------------------------------------
(* Copy-jump protocol *)

\* seeded fault: the newest copy first, as gec_finish does
jump_target_newest_first(target, fw) ==
    IF target # EC_LPC_IMAGE_UNKNOWN THEN target
    ELSE IF fw[EC_LPC_IMAGE_RW_B].flags # 0 THEN EC_LPC_IMAGE_RW_B
    ELSE IF fw[EC_LPC_IMAGE_RW_A].flags # 0 THEN EC_LPC_IMAGE_RW_A
    ELSE IF fw[EC_LPC_IMAGE_RO].flags # 0 THEN EC_LPC_IMAGE_RO
    ELSE EC_LPC_IMAGE_UNKNOWN

\* p.target of gec_jump_copy
jump_target(target, fw) ==
    IF target # EC_LPC_IMAGE_UNKNOWN THEN target
    ELSE IF fw[EC_LPC_IMAGE_RO].flags # 0 THEN EC_LPC_IMAGE_RO
    ELSE IF fw[EC_LPC_IMAGE_RW_A].flags # 0 THEN EC_LPC_IMAGE_RW_A
    ELSE IF fw[EC_LPC_IMAGE_RW_B].flags # 0 THEN EC_LPC_IMAGE_RW_B
    ELSE EC_LPC_IMAGE_UNKNOWN

\* gec_jump_copy(target), called with log l issued so far; log: l and what
\* the jump added to it
\* seeded fault: the delay is skipped when the reboot command failed
gec_jump_copy_no_delay_on_failure(target, fw, tr, l) ==
    LET t == jump_target(target, fw)
        rc == ec_command(tr, l, "REBOOT_EC", t, 0)
    IN IF t = EC_LPC_IMAGE_UNKNOWN
       THEN [ret |-> 1, log |-> l]
       ELSE [ret |-> rc,
             log |-> l \o (IF rc # 0 THEN <<Cmd("REBOOT_EC", t, 0, rc)>>
                           ELSE <<Cmd("REBOOT_EC", t, 0, rc), Sleep>>)]

gec_jump_copy(target, fw, tr, l) ==
    LET t == jump_target(target, fw)
        rc == ec_command(tr, l, "REBOOT_EC", t, 0)
    IN IF t = EC_LPC_IMAGE_UNKNOWN
       THEN [ret |-> 1, log |-> l]
       ELSE [ret |-> rc,
             log |-> l \o <<Cmd("REBOOT_EC", t, 0, rc), Sleep>>]

----------------------------------------------------------------------------
(* Candidate images: what fmap_find_in_memory finds in them *)

Area(n, o, s) == [name |-> n, offset |-> o, size |-> s]

\* RO, RW-A, RW-B where the device keeps them
ImageFull ==
    [found |-> TRUE,
     areas |-> <<Area("RO_SECTION", 0, 2), Area("RW_SECTION_A", 2, 1),
                 Area("RW_SECTION_B", 3, 1)>>]

\* only RW-A has exactly-named entries (two of them); the other names are
\* near misses
ImagePartial ==
    [found |-> TRUE,
     areas |-> <<Area("RW_SECTION", 0, 2), Area("RW_SECTION_A", 3, 1),
                 Area("RW_SECTION_A", 1, 2), Area("RO_SECTION_2", 0, 1)>>]

\* no region map
ImageNone == [found |-> FALSE, areas |-> <<>>]

Images == <<ImageFull, ImagePartial, ImageNone>>

RECURSIVE lookup_sections_no_flag(_, _)
\* seeded fault: the area is copied and the flag is not set
lookup_sections_no_flag(fw, areas) ==
    IF areas = <<>> THEN fw
    ELSE LET fa == Head(areas) IN
         lookup_sections_no_flag(
            [j \in Copies |->
                IF sections[j] = fa.name
                THEN [offset |-> fa.offset, size |-> fa.size, flags |-> 0]
                ELSE fw[j]],
            Tail(areas))

RECURSIVE lookup_sections(_, _)
\* the loop over fmap->areas of gec_prepare
lookup_sections(fw, areas) ==
    IF areas = <<>> THEN fw
    ELSE LET fa == Head(areas) IN
         lookup_sections(
            [j \in Copies |->
                IF sections[j] = fa.name
                THEN [offset |-> fa.offset, size |-> fa.size, flags |-> 1]
                ELSE fw[j]],
            Tail(areas))

----------------------------------------------------------------------------
(* Update orchestrator *)

\* seeded fault: the jump to RO is made without a region map too
gec_prepare_jumps_without_map(det, fw, image, tr) ==
    IF ~det THEN [ret |-> 0, fwcopy |-> fw, log |-> <<>>]
    ELSE LET fw2 == lookup_sections(fw, image.areas)
             j == gec_jump_copy(EC_LPC_IMAGE_RO, fw2, tr, <<>>)
         IN [ret |-> j.ret, fwcopy |-> fw2, log |-> j.log]

\* gec_prepare(image, size)
\* seeded fault: the registry is zeroed before the map is looked up
gec_prepare_from_scratch(det, fw, image, tr) ==
    IF ~det THEN [ret |-> 0, fwcopy |-> fw, log |-> <<>>]
    ELSE IF ~image.found THEN [ret |-> 0, fwcopy |-> fw, log |-> <<>>]
    ELSE LET fw2 == lookup_sections(fwcopy_init, image.areas)
             j == gec_jump_copy(EC_LPC_IMAGE_RO, fw2, tr, <<>>)
         IN [ret |-> j.ret, fwcopy |-> fw2, log |-> j.log]

\* seeded fault: the map is looked up and RO jumped to without a detected
\* controller
gec_prepare_ignores_detection(det, fw, image, tr) ==
    IF ~image.found THEN [ret |-> 0, fwcopy |-> fw, log |-> <<>>]
    ELSE LET fw2 == lookup_sections(fw, image.areas)
             j == gec_jump_copy(EC_LPC_IMAGE_RO, fw2, tr, <<>>)
         IN [ret |-> j.ret, fwcopy |-> fw2, log |-> j.log]

gec_prepare(det, fw, image, tr) ==
    IF ~det THEN [ret |-> 0, fwcopy |-> fw, log |-> <<>>]
    ELSE IF ~image.found THEN [ret |-> 0, fwcopy |-> fw, log |-> <<>>]
    ELSE LET fw2 == lookup_sections(fw, image.areas)
             j == gec_jump_copy(EC_LPC_IMAGE_RO, fw2, tr, <<>>)
         IN [ret |-> j.ret, fwcopy |-> fw2, log |-> j.log]

\* seeded fault: the jump names RO, as the one of gec_prepare does
gec_need_2nd_pass_to_ro(det, fw, need, tr) ==
    IF ~det THEN [ret |-> 0, log |-> <<>>]
    ELSE IF need # 0
    THEN LET j == gec_jump_copy(EC_LPC_IMAGE_RO, fw, tr, <<>>) IN
         IF j.ret # 0 THEN [ret |-> -1, log |-> j.log]
         ELSE [ret |-> need, log |-> j.log]
    ELSE [ret |-> need, log |-> <<>>]

\* seeded fault: the jump is made whether or not need_2nd_pass is set
gec_need_2nd_pass_unconditional(det, fw, need, tr) ==
    IF ~det THEN [ret |-> 0, log |-> <<>>]
    ELSE LET j == gec_jump_copy(EC_LPC_IMAGE_UNKNOWN, fw, tr, <<>>) IN
         IF j.ret # 0 THEN [ret |-> -1, log |-> j.log]
         ELSE [ret |-> need, log |-> j.log]

\* gec_need_2nd_pass()
gec_need_2nd_pass(det, fw, need, tr) ==
    IF ~det THEN [ret |-> 0, log |-> <<>>]
    ELSE IF need # 0
    THEN LET j == gec_jump_copy(EC_LPC_IMAGE_UNKNOWN, fw, tr, <<>>) IN
         IF j.ret # 0 THEN [ret |-> -1, log |-> j.log]
         ELSE [ret |-> need, log |-> j.log]
    ELSE [ret |-> need, log |-> <<>>]

\* seeded fault: RW-A is tried before RW-B
gec_finish_a_first(det, fw, try, tr) ==
    IF ~det THEN [ret |-> 0, log |-> <<>>]
    ELSE IF try = 0 THEN [ret |-> 0, log |-> <<>>]
    ELSE
      LET ja == gec_jump_copy(EC_LPC_IMAGE_RW_A, fw, tr, <<>>)
          la == IF fw[EC_LPC_IMAGE_RW_A].flags # 0 THEN ja.log ELSE <<>>
      IN IF fw[EC_LPC_IMAGE_RW_A].flags # 0 /\ ja.ret = 0
         THEN [ret |-> 0, log |-> la]
         ELSE
           LET jb == gec_jump_copy(EC_LPC_IMAGE_RW_B, fw, tr, la)
               lb == IF fw[EC_LPC_IMAGE_RW_B].flags # 0 THEN jb.log ELSE la
           IN IF fw[EC_LPC_IMAGE_RW_B].flags # 0 /\ jb.ret = 0
              THEN [ret |-> 0, log |-> lb]
              ELSE gec_jump_copy(EC_LPC_IMAGE_RO, fw, tr, lb)

\* gec_finish()
\* seeded fault: without try_latest_firmware the call jumps back to RO
gec_finish_back_to_ro(det, fw, try, tr) ==
    IF ~det THEN [ret |-> 0, log |-> <<>>]
    ELSE IF try = 0 THEN gec_jump_copy(EC_LPC_IMAGE_RO, fw, tr, <<>>)
    ELSE
      LET jb == gec_jump_copy(EC_LPC_IMAGE_RW_B, fw, tr, <<>>)
          lb == IF fw[EC_LPC_IMAGE_RW_B].flags # 0 THEN jb.log ELSE <<>>
      IN IF fw[EC_LPC_IMAGE_RW_B].flags # 0 /\ jb.ret = 0
         THEN [ret |-> 0, log |-> lb]
         ELSE
           LET ja == gec_jump_copy(EC_LPC_IMAGE_RW_A, fw, tr, lb)
               la == IF fw[EC_LPC_IMAGE_RW_A].flags # 0 THEN ja.log ELSE lb
           IN IF fw[EC_LPC_IMAGE_RW_A].flags # 0 /\ ja.ret = 0
              THEN [ret |-> 0, log |-> la]
              ELSE gec_jump_copy(EC_LPC_IMAGE_RO, fw, tr, la)

gec_finish(det, fw, try, tr) ==
    IF ~det THEN [ret |-> 0, log |-> <<>>]
    ELSE IF try = 0 THEN [ret |-> 0, log |-> <<>>]
    ELSE
      LET jb == gec_jump_copy(EC_LPC_IMAGE_RW_B, fw, tr, <<>>)
          lb == IF fw[EC_LPC_IMAGE_RW_B].flags # 0 THEN jb.log ELSE <<>>
      IN IF fw[EC_LPC_IMAGE_RW_B].flags # 0 /\ jb.ret = 0
         THEN [ret |-> 0, log |-> lb]
         ELSE
           LET ja == gec_jump_copy(EC_LPC_IMAGE_RW_A, fw, tr, lb)
               la == IF fw[EC_LPC_IMAGE_RW_A].flags # 0 THEN ja.log ELSE lb
           IN IF fw[EC_LPC_IMAGE_RW_A].flags # 0 /\ ja.ret = 0
              THEN [ret |-> 0, log |-> la]
              ELSE gec_jump_copy(EC_LPC_IMAGE_RO, fw, tr, la)

----------------------------------------------------------------------------
(* Flash access engine *)

RECURSIVE read_loop_full_chunks(_, _, _, _, _, _)
\* seeded fault: every read command asks for maxlen bytes, the last included
read_loop_full_chunks(i, l, blockaddr, readcnt, maxlen, tr) ==
    IF ~(i < readcnt) THEN [ret |-> 0, log |-> l]
    ELSE LET rc == ec_command(tr, l, "FLASH_READ", blockaddr + i, maxlen)
             l2 == Append(l, Cmd("FLASH_READ", blockaddr + i, maxlen, rc))
         IN IF rc # 0 THEN [ret |-> rc, log |-> l2]
            ELSE read_loop_full_chunks(i + maxlen, l2, blockaddr, readcnt,
                                       maxlen, tr)

RECURSIVE read_loop(_, _, _, _, _, _)
\* the for loop of gec_read from index i on, l the commands issued so far
read_loop(i, l, blockaddr, readcnt, maxlen, tr) ==
    IF ~(i < readcnt) THEN [ret |-> 0, log |-> l]
    ELSE LET size == Min(readcnt - i, maxlen)
             rc == ec_command(tr, l, "FLASH_READ", blockaddr + i, size)
             l2 == Append(l, Cmd("FLASH_READ", blockaddr + i, size, rc))
         IN IF rc # 0 THEN [ret |-> rc, log |-> l2]
            ELSE read_loop(i + maxlen, l2, blockaddr, readcnt, maxlen, tr)

\* gec_read(flash, readarr, blockaddr, readcnt)
gec_read(blockaddr, readcnt, maxlen, tr) ==
    read_loop(0, <<>>, blockaddr, readcnt, maxlen, tr)

\* gec_block_erase(flash, blockaddr, len)
gec_block_erase(fw, need, try, blockaddr, len, tr) ==
    LET rc == ec_command(tr, <<>>, "FLASH_ERASE", blockaddr, len)
        l == <<Cmd("FLASH_ERASE", blockaddr, len, rc)>>
    IN IF rc = EC_LPC_RESULT_ACCESS_DENIED
       THEN [ret |-> ACCESS_DENIED, log |-> l,
             fwcopy |-> gec_invalidate_copy(fw, blockaddr, len),
             need_2nd_pass |-> 1, try_latest_firmware |-> try]
       ELSE IF rc # 0
       THEN [ret |-> rc, log |-> l, fwcopy |-> fw,
             need_2nd_pass |-> need, try_latest_firmware |-> try]
       ELSE [ret |-> rc, log |-> l, fwcopy |-> fw,
             need_2nd_pass |-> need, try_latest_firmware |-> 1]

RECURSIVE write_loop(_, _, _, _, _, _, _)
\* the for loop of gec_write from index i on; rc the status of the last
\* command, l the commands issued so far.  denied: the loop was left by the
\* ACCESS_DENIED return, otherwise by its end or by break.
write_loop(i, rc, l, addr, nbytes, maxlen, tr) ==
    IF ~(i < nbytes) THEN [denied |-> FALSE, rc |-> rc, log |-> l]
    ELSE LET written == Min(nbytes - i, maxlen)
             r == ec_command(tr, l, "FLASH_WRITE", addr + i, written)
             l2 == Append(l, Cmd("FLASH_WRITE", addr + i, written, r))
         IN IF r = EC_LPC_RESULT_ACCESS_DENIED
            THEN [denied |-> TRUE, rc |-> r, log |-> l2]
            ELSE IF r # 0
            THEN [denied |-> FALSE, rc |-> r, log |-> l2]
            ELSE write_loop(i + written, r, l2, addr, nbytes, maxlen, tr)

\* seeded fault: only the range of the denied chunk is invalidated
gec_write_invalidates_chunk(fw, need, try, addr, nbytes, maxlen, tr) ==
    LET w == write_loop(0, 0, <<>>, addr, nbytes, maxlen, tr)
        last == w.log[Len(w.log)]
    IN IF w.denied
       THEN [ret |-> ACCESS_DENIED, log |-> w.log,
             fwcopy |-> gec_invalidate_copy(fw, last.a, last.b),
             need_2nd_pass |-> 1, try_latest_firmware |-> try]
       ELSE [ret |-> w.rc, log |-> w.log, fwcopy |-> fw,
             need_2nd_pass |-> need, try_latest_firmware |-> 1]

\* seeded fault: a write that is not denied marks the copies it touched as new
gec_write_revalidates(fw, need, try, addr, nbytes, maxlen, tr) ==
    LET w == write_loop(0, 0, <<>>, addr, nbytes, maxlen, tr) IN
    IF w.denied
    THEN [ret |-> ACCESS_DENIED, log |-> w.log,
          fwcopy |-> gec_invalidate_copy(fw, addr, nbytes),
          need_2nd_pass |-> 1, try_latest_firmware |-> try]
    ELSE [ret |-> w.rc, log |-> w.log,
          fwcopy |-> [j \in Copies |->
                        IF invalidate_hit(fw[j], addr, nbytes)
                        THEN [fw[j] EXCEPT !.flags = 1]
                        ELSE fw[j]],
          need_2nd_pass |-> need, try_latest_firmware |-> 1]

\* gec_write(flash, buf, addr, nbytes)
gec_write(fw, need, try, addr, nbytes, maxlen, tr) ==
    LET w == write_loop(0, 0, <<>>, addr, nbytes, maxlen, tr) IN
    IF w.denied
    THEN [ret |-> ACCESS_DENIED, log |-> w.log,
          fwcopy |-> gec_invalidate_copy(fw, addr, nbytes),
          need_2nd_pass |-> 1, try_latest_firmware |-> try]
    ELSE [ret |-> w.rc, log |-> w.log, fwcopy |-> fw,
          need_2nd_pass |-> need, try_latest_firmware |-> 1]

----------------------------------------------------------------------------
(* Write-protect commands *)

\* gec_set_range(flash, start, len)
gec_set_range(start, len, tr) ==
    LET rc == ec_command(tr, <<>>, "FLASH_WP_SET_RANGE", start, len) IN
    [ret |-> IF rc # 0 THEN rc ELSE 0,
     log |-> <<Cmd("FLASH_WP_SET_RANGE", start, len, rc)>>]

\* seeded fault: the enable command carries enable_wp = 0
gec_enable_writeprotect_clears(tr) ==
    LET rc == ec_command(tr, <<>>, "FLASH_WP_ENABLE", 0, 0) IN
    [ret |-> rc, log |-> <<Cmd("FLASH_WP_ENABLE", 0, 0, rc)>>]

\* gec_enable_writeprotect(flash)
gec_enable_writeprotect(tr) ==
    LET rc == ec_command(tr, <<>>, "FLASH_WP_ENABLE", 1, 0) IN
    [ret |-> rc, log |-> <<Cmd("FLASH_WP_ENABLE", 1, 0, rc)>>]

\* gec_disable_writeprotect(flash)
gec_disable_writeprotect(tr) ==
    LET rc == ec_command(tr, <<>>, "FLASH_WP_ENABLE", 0, 0) IN
    [ret |-> rc, log |-> <<Cmd("FLASH_WP_ENABLE", 0, 0, rc)>>]

\* what the controller holds and returns: lpc_response_flash_wp_range and
\* lpc_response_flash_wp_enable
NoWP == [offset |-> 0, size |-> 0, enable_wp |-> 0]

RECURSIVE WPAfter(_, _)
\* the controller stores the range and the enable value of every successful
\* SET_RANGE and ENABLE command
WPAfter(w, l) ==
    IF l = <<>> THEN w
    ELSE LET e == Head(l)
             ok == e.rc = EC_LPC_RESULT_SUCCESS
         IN WPAfter(IF e.cmd = "FLASH_WP_SET_RANGE" /\ ok
                    THEN [w EXCEPT !.offset = e.a, !.size = e.b]
                    ELSE IF e.cmd = "FLASH_WP_ENABLE" /\ ok
                    THEN [w EXCEPT !.enable_wp = e.a]
                    ELSE w, Tail(l))

\* a transport as ScriptTransport whose GET_RANGE and GET_STATE responses
\* carry the range and the enable value of w
WPTransport(script, w) ==
    [kind |-> "script", script |-> script, act |-> 0, wp |-> w]

\* nothing printed
NoReport ==
    [printed |-> FALSE, value |-> 0, srp0 |-> 0, enabled |-> FALSE,
     start |-> 0, len |-> 0]

\* the msg_pinfo lines of gec_wp_status for responses range and en;
\* value is a uint8_t
WPReport(range, en) ==
    [printed |-> TRUE, value |-> (en * 2^7) % 2^8, srp0 |-> en,
     enabled |-> (en # 0), start |-> range.offset, len |-> range.size]

\* seeded fault: GET_STATE is issued although GET_RANGE failed
gec_wp_status_reads_on(tr) ==
    LET rc1 == ec_command(tr, <<>>, "FLASH_WP_GET_RANGE", 0, 0)
        l1 == <<Cmd("FLASH_WP_GET_RANGE", 0, 0, rc1)>>
        rc2 == ec_command(tr, l1, "FLASH_WP_GET_STATE", 0, 0)
        l2 == Append(l1, Cmd("FLASH_WP_GET_STATE", 0, 0, rc2))
    IN IF rc1 # 0 THEN [ret |-> rc1, log |-> l2, report |-> NoReport]
       ELSE IF rc2 # 0 THEN [ret |-> rc2, log |-> l2, report |-> NoReport]
       ELSE [ret |-> 0, log |-> l2,
             report |-> WPReport(tr.wp, tr.wp.enable_wp)]

\* gec_wp_status(flash)
gec_wp_status(tr) ==
    LET rc1 == ec_command(tr, <<>>, "FLASH_WP_GET_RANGE", 0, 0)
        l1 == <<Cmd("FLASH_WP_GET_RANGE", 0, 0, rc1)>>
        rc2 == ec_command(tr, l1, "FLASH_WP_GET_STATE", 0, 0)
        l2 == Append(l1, Cmd("FLASH_WP_GET_STATE", 0, 0, rc2))
    IN IF rc1 # 0 THEN [ret |-> rc1, log |-> l1, report |-> NoReport]
       ELSE IF rc2 # 0 THEN [ret |-> rc2, log |-> l2, report |-> NoReport]
       ELSE [ret |-> 0, log |-> l2,
             report |-> WPReport(tr.wp, tr.wp.enable_wp)]

----------------------------------------------------------------------------
(* The flash access engine built with SUPPORT_CHECKSUM *)

\* sizeof(r.data) of struct lpc_response_flash_read
RDATA_SIZE == 128

\* i < n for an int i and an unsigned int n: i is converted to unsigned, and
\* a negative i becomes 2^32 + i, above every n of the model
ULess(i, n) == IF i < 0 THEN FALSE ELSE i < n

\* a transport as ScriptTransport that answers the n-th checksum command
\* of a call with a checksum other than the local one where differs[n]
ChecksumTransport(script, differs) ==
    [kind |-> "script", script |-> script, act |-> 0, differs |-> differs]

\* verify_checksum(expected, addr, count) in a call that has issued l
verify_checksum(tr, l, addr, count) ==
    LET rc == ec_command(tr, l, "FLASH_CHECKSUM", addr, count)
        l1 == Append(l, Cmd("FLASH_CHECKSUM", addr, count, rc))
        n == Len(SelectSeq(l1, LAMBDA e : e.cmd = "FLASH_CHECKSUM"))
    IN IF rc # 0 THEN [ret |-> rc, log |-> l1]
       ELSE IF n \in DOMAIN tr.differs /\ tr.differs[n]
       THEN [ret |-> 1, log |-> Append(l1, Delay)]
       ELSE [ret |-> 0, log |-> l1]

RECURSIVE read_loop_checksum(_, _, _, _, _, _, _)
\* the for loop of gec_read from index i on; rc the status of the last read
\* command.  After a mismatch i -= sizeof(r.data) and the loop's i += maxlen
\* both run before the loop test.
read_loop_checksum(i, rc, l, blockaddr, readcnt, maxlen, tr) ==
    IF ~ULess(i, readcnt) THEN [ret |-> rc, log |-> l]
    ELSE LET size == Min(readcnt - i, maxlen)
             r == ec_command(tr, l, "FLASH_READ", blockaddr + i, size)
             l2 == Append(l, Cmd("FLASH_READ", blockaddr + i, size, r))
             v == verify_checksum(tr, l2, blockaddr + i,
                                  Min(readcnt - i, RDATA_SIZE))
         IN IF r # 0 THEN [ret |-> r, log |-> l2]
            ELSE IF v.ret # 0
            THEN read_loop_checksum(i - RDATA_SIZE + maxlen, r, v.log,
                                    blockaddr, readcnt, maxlen, tr)
            ELSE read_loop_checksum(i + maxlen, r,
                                    Append(v.log, Memcpy(i, size)),
                                    blockaddr, readcnt, maxlen, tr)

\* gec_read(flash, readarr, blockaddr, readcnt)
gec_read_checksum(blockaddr, readcnt, maxlen, tr) ==
    read_loop_checksum(0, 0, <<>>, blockaddr, readcnt, maxlen, tr)

RECURSIVE erase_loop_checksum(_, _, _, _, _, _, _)
\* gec_block_erase from the label re_erase on
erase_loop_checksum(l, fw, need, try, blockaddr, len, tr) ==
    LET rc == ec_command(tr, l, "FLASH_ERASE", blockaddr, len)
        l2 == Append(l, Cmd("FLASH_ERASE", blockaddr, len, rc))
        v == verify_checksum(tr, l2, blockaddr, len)
    IN IF rc = EC_LPC_RESULT_ACCESS_DENIED
       THEN [ret |-> ACCESS_DENIED, log |-> l2,
             fwcopy |-> gec_invalidate_copy(fw, blockaddr, len),
             need_2nd_pass |-> 1, try_latest_firmware |-> try]
       ELSE IF rc # 0
       THEN [ret |-> rc, log |-> l2, fwcopy |-> fw,
             need_2nd_pass |-> need, try_latest_firmware |-> try]
       ELSE IF v.ret # 0
       THEN erase_loop_checksum(v.log, fw, need, try, blockaddr, len, tr)
       ELSE [ret |-> rc, log |-> v.log, fwcopy |-> fw,
             need_2nd_pass |-> need, try_latest_firmware |-> 1]

\* gec_block_erase(flash, blockaddr, len)
gec_block_erase_checksum(fw, need, try, blockaddr, len, tr) ==
    erase_loop_checksum(<<>>, fw, need, try, blockaddr, len, tr)

RECURSIVE write_loop_checksum(_, _, _, _, _, _, _)
\* the for loop of gec_write from index i on.  After a mismatch i -= written
\* and the loop's i += written leave i where it was; the checksum is
\* verified before the status of the write command is looked at.
write_loop_checksum(i, rc, l, addr, nbytes, maxlen, tr) ==
    IF ~ULess(i, nbytes) THEN [denied |-> FALSE, rc |-> rc, log |-> l]
    ELSE LET written == Min(nbytes - i, maxlen)
             r == ec_command(tr, l, "FLASH_WRITE", addr + i, written)
             l2 == Append(l, Cmd("FLASH_WRITE", addr + i, written, r))
             v == verify_checksum(tr, l2, addr + i, written)
         IN IF r = EC_LPC_RESULT_ACCESS_DENIED
            THEN [denied |-> TRUE, rc |-> r, log |-> l2]
            ELSE IF v.ret # 0
            THEN write_loop_checksum(i - written + written, r, v.log,
                                     addr, nbytes, maxlen, tr)
            ELSE IF r # 0
            THEN [denied |-> FALSE, rc |-> r, log |-> v.log]
            ELSE write_loop_checksum(i + written, r, v.log,
                                     addr, nbytes, maxlen, tr)

\* gec_write(flash, buf, addr, nbytes)
gec_write_checksum(fw, need, try, addr, nbytes, maxlen, tr) ==
    LET w == write_loop_checksum(0, 0, <<>>, addr, nbytes, maxlen, tr) IN
    IF w.denied
    THEN [ret |-> ACCESS_DENIED, log |-> w.log,
          fwcopy |-> gec_invalidate_copy(fw, addr, nbytes),
          need_2nd_pass |-> 1, try_latest_firmware |-> try]
    ELSE [ret |-> w.rc, log |-> w.log, fwcopy |-> fw,
          need_2nd_pass |-> need, try_latest_firmware |-> 1]

----------------------------------------------------------------------------
(* The calls as state changes.  Each sets the program's statics, lets the  *)
(* device act on the commands sent, and records the call.                  *)

Call(o, x, y, m, r) == [op |-> o, a |-> x, b |-> y, m |-> m, ret |-> r]

NoCall == Call("none", 0, 0, 0, 0)

\* the record of a call and what the device made of its commands
RecordReport(c, l, r) ==
    /\ call' = c
    /\ log' = l
    /\ active' = DeviceAfter(active, l)
    /\ report' = r

\* the same for a call that prints no write-protect status
Record(c, l) == RecordReport(c, l, NoReport)

\* gec_prepare on Images[n]
DoPrepare(n, tr) ==
    LET r == gec_prepare(detected, fwcopy, Images[n], tr) IN
    /\ fwcopy' = r.fwcopy
    /\ UNCHANGED <<detected, need_2nd_pass, try_latest_firmware>>
    /\ Record(Call("prepare", n, 0, 0, r.ret), r.log)

DoJumpCopy(target, tr) ==
    LET r == gec_jump_copy(target, fwcopy, tr, <<>>) IN
    /\ UNCHANGED progvars
    /\ Record(Call("jump", target, 0, 0, r.ret), r.log)

\* seeded fault: a successful jump clears need_2nd_pass
DoNeed2ndPass_clears(tr) ==
    LET r == gec_need_2nd_pass(detected, fwcopy, need_2nd_pass, tr) IN
    /\ need_2nd_pass' = IF r.ret > 0 THEN 0 ELSE need_2nd_pass
    /\ UNCHANGED <<detected, fwcopy, try_latest_firmware>>
    /\ Record(Call("need_2nd_pass", 0, 0, 0, r.ret), r.log)

DoNeed2ndPass(tr) ==
    LET r == gec_need_2nd_pass(detected, fwcopy, need_2nd_pass, tr) IN
    /\ UNCHANGED progvars
    /\ Record(Call("need_2nd_pass", 0, 0, 0, r.ret), r.log)

DoFinish(tr) ==
    LET r == gec_finish(detected, fwcopy, try_latest_firmware, tr) IN
    /\ UNCHANGED progvars
    /\ Record(Call("finish", 0, 0, 0, r.ret), r.log)

DoRead(blockaddr, readcnt, maxlen, tr) ==
    LET r == gec_read(blockaddr, readcnt, maxlen, tr) IN
    /\ UNCHANGED progvars
    /\ Record(Call("read", blockaddr, readcnt, maxlen, r.ret), r.log)

DoErase(blockaddr, len, tr) ==
    LET r == gec_block_erase(fwcopy, need_2nd_pass, try_latest_firmware,
                             blockaddr, len, tr) IN
    /\ fwcopy' = r.fwcopy
    /\ need_2nd_pass' = r.need_2nd_pass
    /\ try_latest_firmware' = r.try_latest_firmware
    /\ UNCHANGED detected
    /\ Record(Call("erase", blockaddr, len, 0, r.ret), r.log)

DoWrite(addr, nbytes, maxlen, tr) ==
    LET r == gec_write(fwcopy, need_2nd_pass, try_latest_firmware,
                       addr, nbytes, maxlen, tr) IN
    /\ fwcopy' = r.fwcopy
    /\ need_2nd_pass' = r.need_2nd_pass
    /\ try_latest_firmware' = r.try_latest_firmware
    /\ UNCHANGED detected
    /\ Record(Call("write", addr, nbytes, maxlen, r.ret), r.log)

DoReadChecksum(blockaddr, readcnt, maxlen, tr) ==
    LET r == gec_read_checksum(blockaddr, readcnt, maxlen, tr) IN
    /\ UNCHANGED progvars
    /\ Record(Call("read", blockaddr, readcnt, maxlen, r.ret), r.log)

DoEraseChecksum(blockaddr, len, tr) ==
    LET r == gec_block_erase_checksum(fwcopy, need_2nd_pass,
                                      try_latest_firmware,
                                      blockaddr, len, tr) IN
    /\ fwcopy' = r.fwcopy
    /\ need_2nd_pass' = r.need_2nd_pass
    /\ try_latest_firmware' = r.try_latest_firmware
    /\ UNCHANGED detected
    /\ Record(Call("erase", blockaddr, len, 0, r.ret), r.log)

DoWriteChecksum(addr, nbytes, maxlen, tr) ==
    LET r == gec_write_checksum(fwcopy, need_2nd_pass, try_latest_firmware,
                                addr, nbytes, maxlen, tr) IN
    /\ fwcopy' = r.fwcopy
    /\ need_2nd_pass' = r.need_2nd_pass
    /\ try_latest_firmware' = r.try_latest_firmware
    /\ UNCHANGED detected
    /\ Record(Call("write", addr, nbytes, maxlen, r.ret), r.log)

DoSetRange(start, len, tr) ==
    LET r == gec_set_range(start, len, tr) IN
    /\ UNCHANGED progvars
    /\ Record(Call("wp_set_range", start, len, 0, r.ret), r.log)

DoEnableWP(tr) ==
    LET r == gec_enable_writeprotect(tr) IN
    /\ UNCHANGED progvars
    /\ Record(Call("wp_enable", 0, 0, 0, r.ret), r.log)

DoDisableWP(tr) ==
    LET r == gec_disable_writeprotect(tr) IN
    /\ UNCHANGED progvars
    /\ Record(Call("wp_disable", 0, 0, 0, r.ret), r.log)

DoWPStatus(tr) ==
    LET r == gec_wp_status(tr) IN
    /\ UNCHANGED progvars
    /\ RecordReport(Call("wp_status", 0, 0, 0, r.ret), r.log, r.report)

----------------------------------------------------------------------------
(* Spec: any call at any time, any status from the transport.  A call is   *)
(* made once the caller has taken the result of the previous one (Return). *)

Addrs == 0..MaxAddr

\* write-protect states a controller may hold
WPStates ==
    [offset : {0, MaxAddr}, size : {0, MaxLen}, enable_wp : {0, 1}]
Lens == 0..MaxLen
MaxLens == 1..MaxData

Init ==
    /\ detected \in BOOLEAN
    /\ fwcopy = fwcopy_init
    /\ need_2nd_pass = 0
    /\ try_latest_firmware = 0
    /\ active \in Copies
    /\ call = NoCall
    /\ log = <<>>
    /\ pc = "free"
    /\ pass = 0
    /\ bsize = 0
    /\ blk = 0
    /\ okblocks = {}
    /\ denied1 = {}
    /\ report = NoReport
    /\ wp = NoWP
    /\ wpreq = NoWP
    /\ idx = 0

Idle == call.op = "none"

\* the caller takes the result of the last call
Return ==
    /\ ~Idle
    /\ call' = NoCall
    /\ log' = <<>>
    /\ report' = NoReport
    /\ UNCHANGED <<progvars, active, drivervars>>

Prepare ==
    /\ Idle
    /\ \E n \in DOMAIN Images, script \in Scripts(1) :
        DoPrepare(n, ScriptTransport(script))
    /\ UNCHANGED drivervars

JumpCopy ==
    /\ Idle
    /\ \E target \in 0..3, script \in Scripts(1) :
        DoJumpCopy(target, ScriptTransport(script))
    /\ UNCHANGED drivervars

Need2ndPass ==
    /\ Idle
    /\ \E script \in Scripts(1) : DoNeed2ndPass(ScriptTransport(script))
    /\ UNCHANGED drivervars

Finish ==
    /\ Idle
    /\ \E script \in Scripts(3) : DoFinish(ScriptTransport(script))
    /\ UNCHANGED drivervars

Read ==
    /\ Idle
    /\ \E blockaddr \in Addrs, readcnt \in Lens, maxlen \in MaxLens :
        \E script \in Scripts(NumChunks(readcnt, maxlen)) :
            DoRead(blockaddr, readcnt, maxlen, ScriptTransport(script))
    /\ UNCHANGED drivervars

Erase ==
    /\ Idle
    /\ \E blockaddr \in Addrs, len \in Lens, script \in Scripts(1) :
        DoErase(blockaddr, len, ScriptTransport(script))
    /\ UNCHANGED drivervars

Write ==
    /\ Idle
    /\ \E addr \in Addrs, nbytes \in Lens, maxlen \in MaxLens :
        \E script \in Scripts(NumChunks(nbytes, maxlen)) :
            DoWrite(addr, nbytes, maxlen, ScriptTransport(script))
    /\ UNCHANGED drivervars

SetRange ==
    /\ Idle
    /\ \E start \in Addrs, len \in Lens, script \in Scripts(1) :
        DoSetRange(start, len, ScriptTransport(script))
    /\ UNCHANGED drivervars

EnableWP ==
    /\ Idle
    /\ \E script \in Scripts(1) : DoEnableWP(ScriptTransport(script))
    /\ UNCHANGED drivervars

DisableWP ==
    /\ Idle
    /\ \E script \in Scripts(1) : DoDisableWP(ScriptTransport(script))
    /\ UNCHANGED drivervars

WPStatus ==
    /\ Idle
    /\ \E script \in Scripts(2), w \in WPStates :
           DoWPStatus(WPTransport(script, w))
    /\ UNCHANGED drivervars

Next ==
    \/ Prepare
    \/ JumpCopy
    \/ Need2ndPass
    \/ Finish
    \/ Read
    \/ Erase
    \/ Write
    \/ SetRange
    \/ EnableWP
    \/ DisableWP
    \/ WPStatus
    \/ Return

Spec == Init /\ [][Next]_vars

----------------------------------------------------------------------------
(* SpecUpdate: one update run against a device that denies exactly the     *)
(* erase and write commands overlapping its active copy.  The driver       *)
(* prepares with ImageFull, erases and writes the flash block by block,    *)
(* asks gec_need_2nd_pass, runs the second pass if told to, and finishes.  *)

\* erase block sizes the device may have are 1..MaxBlock
MaxBlock == 2

\* the flash ends where the last copy ends
FlashSize ==
    DeviceLayout[EC_LPC_IMAGE_RW_B].offset + DeviceLayout[EC_LPC_IMAGE_RW_B].size

NBlocks == NumChunks(FlashSize, bsize)

\* what the device may answer to a reboot command
RebootRcs == {EC_LPC_RESULT_SUCCESS, EC_LPC_RESULT_ERROR}

InitUpdate ==
    /\ detected = TRUE
    /\ fwcopy = fwcopy_init
    /\ need_2nd_pass = 0
    /\ try_latest_firmware = 0
    /\ active \in Copies
    /\ call = NoCall
    /\ log = <<>>
    /\ pc = "prepare"
    /\ pass = 1
    /\ bsize \in 1..MaxBlock
    /\ blk = 0
    /\ okblocks = {}
    /\ denied1 = {}
    /\ report = NoReport
    /\ wp = NoWP
    /\ wpreq = NoWP
    /\ idx = 0

\* on to the next block of the pass, or to what follows the pass
NextBlock ==
    IF blk + 1 < NBlocks
    THEN pc' = "erase" /\ blk' = blk + 1
    ELSE pc' = (IF pass = 1 THEN "check" ELSE "finish") /\ blk' = 0

UpdatePrepare ==
    /\ pc = "prepare"
    /\ \E rc \in RebootRcs : DoPrepare(1, DeviceTransport(active, rc))
    /\ pc' = "erase"
    /\ UNCHANGED <<pass, bsize, blk, okblocks, denied1>>
    /\ UNCHANGED <<wpvars, idx>>

\* a denied block is skipped and left to the second pass
UpdateErase ==
    /\ pc = "erase"
    /\ DoErase(blk * bsize, bsize, DeviceTransport(active, 0))
    /\ IF call'.ret = 0
       THEN pc' = "write" /\ UNCHANGED <<blk, denied1>>
       ELSE /\ NextBlock
            /\ denied1' = IF pass = 1 THEN denied1 \cup {blk} ELSE denied1
    /\ UNCHANGED <<pass, bsize, okblocks>>
    /\ UNCHANGED <<wpvars, idx>>

UpdateWrite ==
    /\ pc = "write"
    /\ \E maxlen \in MaxLens :
        DoWrite(blk * bsize, bsize, maxlen, DeviceTransport(active, 0))
    /\ okblocks' = IF call'.ret = 0 THEN okblocks \cup {blk} ELSE okblocks
    /\ denied1' = IF call'.ret # 0 /\ pass = 1
                  THEN denied1 \cup {blk} ELSE denied1
    /\ NextBlock
    /\ UNCHANGED <<pass, bsize>>
    /\ UNCHANGED <<wpvars, idx>>

UpdateNeed2ndPass ==
    /\ pc = "check"
    /\ \E rc \in RebootRcs : DoNeed2ndPass(DeviceTransport(active, rc))
    /\ pc' = IF call'.ret > 0 THEN "erase"
             ELSE IF call'.ret = 0 THEN "finish" ELSE "abort"
    /\ pass' = IF call'.ret > 0 THEN 2 ELSE pass
    /\ UNCHANGED <<bsize, blk, okblocks, denied1>>
    /\ UNCHANGED <<wpvars, idx>>

UpdateFinish ==
    /\ pc = "finish"
    /\ \E rc \in RebootRcs : DoFinish(DeviceTransport(active, rc))
    /\ pc' = "done"
    /\ UNCHANGED <<pass, bsize, blk, okblocks, denied1>>
    /\ UNCHANGED <<wpvars, idx>>

NextUpdate ==
    \/ UpdatePrepare
    \/ UpdateErase
    \/ UpdateWrite
    \/ UpdateNeed2ndPass
    \/ UpdateFinish

SpecUpdate == InitUpdate /\ [][NextUpdate]_vars

----------------------------------------------------------------------------
(* SpecChecksum: the build with SUPPORT_CHECKSUM.  Any read, erase or      *)
(* write at any time, any status from the transport, and any of the first  *)
(* checksums of a call differing from the local one.                       *)

\* the statuses of the first two commands of a call: success, denial, or
\* one of the other failures
ChecksumScripts ==
    [1..2 -> {EC_LPC_RESULT_SUCCESS, EC_LPC_RESULT_ERROR,
              EC_LPC_RESULT_ACCESS_DENIED}]

\* which of the first two checksum commands of a call report a mismatch
Differs == [1..2 -> BOOLEAN]

\* read requests <<readcnt, maxlen>>: the small ones of Spec, and counts and
\* chunk sizes around sizeof(r.data)
ReadRequests ==
    (Lens \X MaxLens) \cup
    ({RDATA_SIZE, RDATA_SIZE + RDATA_SIZE \div 2} \X
         {RDATA_SIZE \div 2, RDATA_SIZE})

ChecksumRead ==
    /\ Idle
    /\ \E blockaddr \in Addrs, q \in ReadRequests :
        \E script \in ChecksumScripts, differs \in Differs :
            DoReadChecksum(blockaddr, q[1], q[2],
                           ChecksumTransport(script, differs))
    /\ UNCHANGED drivervars

ChecksumErase ==
    /\ Idle
    /\ \E blockaddr \in Addrs, len \in Lens :
        \E script \in ChecksumScripts, differs \in Differs :
            DoEraseChecksum(blockaddr, len,
                            ChecksumTransport(script, differs))
    /\ UNCHANGED drivervars

ChecksumWrite ==
    /\ Idle
    /\ \E addr \in Addrs, nbytes \in Lens, maxlen \in MaxLens :
        \E script \in ChecksumScripts, differs \in Differs :
            DoWriteChecksum(addr, nbytes, maxlen,
                            ChecksumTransport(script, differs))
    /\ UNCHANGED drivervars

NextChecksum ==
    \/ Prepare
    \/ ChecksumRead
    \/ ChecksumErase
    \/ ChecksumWrite
    \/ Return

SpecChecksum == Init /\ [][NextChecksum]_vars

----------------------------------------------------------------------------
(* SpecDevice: any call of the update session at any time, with any range, *)
(* against the device that denies exactly the erase and write commands     *)
(* overlapping its active copy.                                            *)

DevicePrepare ==
    /\ Idle
    /\ \E n \in DOMAIN Images, rc \in RebootRcs :
           DoPrepare(n, DeviceTransport(active, rc))
    /\ UNCHANGED drivervars

DeviceErase ==
    /\ Idle
    /\ \E addr \in Addrs, len \in Lens :
           DoErase(addr, len, DeviceTransport(active, 0))
    /\ UNCHANGED drivervars

DeviceWrite ==
    /\ Idle
    /\ \E addr \in Addrs, nbytes \in Lens, maxlen \in MaxLens :
           DoWrite(addr, nbytes, maxlen, DeviceTransport(active, 0))
    /\ UNCHANGED drivervars

DeviceNeed2ndPass ==
    /\ Idle
    /\ \E rc \in RebootRcs : DoNeed2ndPass(DeviceTransport(active, rc))
    /\ UNCHANGED drivervars

DeviceFinish ==
    /\ Idle
    /\ \E rc \in RebootRcs : DoFinish(DeviceTransport(active, rc))
    /\ UNCHANGED drivervars

NextDevice ==
    \/ DevicePrepare
    \/ DeviceErase
    \/ DeviceWrite
    \/ DeviceNeed2ndPass
    \/ DeviceFinish
    \/ Return

SpecDevice == Init /\ [][NextDevice]_vars

----------------------------------------------------------------------------
(* SpecWP: one write-protect round trip, set range, enable, status,        *)
(* against a controller that stores the last range and enable value it     *)
(* was sent and returns them.  Each command succeeds or fails; the driver  *)
(* goes on after a call that returned success.                             *)

InitWP ==
    /\ detected \in BOOLEAN
    /\ fwcopy = fwcopy_init
    /\ need_2nd_pass = 0
    /\ try_latest_firmware = 0
    /\ active \in Copies
    /\ call = NoCall
    /\ log = <<>>
    /\ pc = "wp_set_range"
    /\ pass = 0
    /\ bsize = 0
    /\ blk = 0
    /\ okblocks = {}
    /\ denied1 = {}
    /\ report = NoReport
    /\ wp \in WPStates
    /\ wpreq = NoWP
    /\ idx = 0

RoundTripSetRange ==
    /\ pc = "wp_set_range"
    /\ \E start \in Addrs, len \in Lens, rc \in RebootRcs :
        /\ DoSetRange(start, len, WPTransport(<<rc>>, wp))
        /\ wpreq' = [offset |-> start, size |-> len, enable_wp |-> 1]
    /\ wp' = WPAfter(wp, log')
    /\ pc' = IF call'.ret = 0 THEN "wp_enable" ELSE "wp_abort"
    /\ UNCHANGED <<pass, bsize, blk, okblocks, denied1, idx>>

RoundTripEnable ==
    /\ pc = "wp_enable"
    /\ \E rc \in RebootRcs : DoEnableWP(WPTransport(<<rc>>, wp))
    /\ wp' = WPAfter(wp, log')
    /\ pc' = IF call'.ret = 0 THEN "wp_status" ELSE "wp_abort"
    /\ UNCHANGED <<pass, bsize, blk, okblocks, denied1, wpreq, idx>>

RoundTripStatus ==
    /\ pc = "wp_status"
    /\ \E script \in [1..2 -> RebootRcs] : DoWPStatus(WPTransport(script, wp))
    /\ wp' = WPAfter(wp, log')
    /\ pc' = "wp_done"
    /\ UNCHANGED <<pass, bsize, blk, okblocks, denied1, wpreq, idx>>

NextWP ==
    \/ RoundTripSetRange
    \/ RoundTripEnable
    \/ RoundTripStatus

SpecWP == InitWP /\ [][NextWP]_vars

----------------------------------------------------------------------------
(* SpecLarge: reads and writes of the build without SUPPORT_CHECKSUM with  *)
(* lengths and advertised maxima around the sizes of the data arrays of    *)
(* the FLASH_READ response and the FLASH_WRITE request.                    *)

\* sizeof(p.data) of struct lpc_params_flash_write
WDATA_SIZE == 64

\* lengths and maxima just below, at and just above the two sizes
AroundSizes ==
    {WDATA_SIZE - 1, WDATA_SIZE, WDATA_SIZE + 1,
     RDATA_SIZE - 1, RDATA_SIZE, RDATA_SIZE + 1}

LargeRead ==
    /\ Idle
    /\ \E readcnt \in AroundSizes, maxlen \in AroundSizes,
          script \in Scripts(1) :
           DoRead(0, readcnt, maxlen, ScriptTransport(script))
    /\ UNCHANGED drivervars

LargeWrite ==
    /\ Idle
    /\ \E nbytes \in AroundSizes, maxlen \in AroundSizes,
          script \in Scripts(1) :
           DoWrite(0, nbytes, maxlen, ScriptTransport(script))
    /\ UNCHANGED drivervars

NextLarge ==
    \/ LargeRead
    \/ LargeWrite
    \/ Return

SpecLarge == Init /\ [][NextLarge]_vars

----------------------------------------------------------------------------
(* SpecLoop: one gec_read or gec_write call of the build without           *)
(* SUPPORT_CHECKSUM, one loop iteration per step, any status for each      *)
(* command.  The call runs on until it returns (weak fairness).            *)

InitLoop ==
    /\ detected = TRUE
    /\ fwcopy = lookup_sections(fwcopy_init, ImageFull.areas)
    /\ need_2nd_pass = 0
    /\ try_latest_firmware = 0
    /\ active \in Copies
    /\ \E op \in {"read", "write"}, addr \in Addrs, n \in Lens,
          maxlen \in MaxLens : call = Call(op, addr, n, maxlen, 0)
    /\ log = <<>>
    /\ pc = "loop"
    /\ pass = 0
    /\ bsize = 0
    /\ blk = 0
    /\ okblocks = {}
    /\ denied1 = {}
    /\ report = NoReport
    /\ wp = NoWP
    /\ wpreq = NoWP
    /\ idx = 0

\* seeded fault: a failed read command is sent again
ReadIteration_retries ==
    /\ pc = "loop" /\ call.op = "read" /\ idx < call.b
    /\ \E rc \in Status :
        /\ log' = Append(log, Cmd("FLASH_READ", call.a + idx,
                                  Min(call.b - idx, call.m), rc))
        /\ idx' = IF rc # 0 THEN idx ELSE idx + call.m
    /\ UNCHANGED <<progvars, active, call, pc, report, pass, bsize, blk,
                   okblocks, denied1, wpvars>>

\* one pass through the body of the for loop of gec_read
ReadIteration ==
    /\ pc = "loop" /\ call.op = "read" /\ idx < call.b
    /\ \E rc \in Status :
        /\ log' = Append(log, Cmd("FLASH_READ", call.a + idx,
                                  Min(call.b - idx, call.m), rc))
        /\ IF rc # 0
           THEN /\ call' = [call EXCEPT !.ret = rc]
                /\ pc' = "done"
                /\ idx' = idx
           ELSE /\ idx' = idx + call.m
                /\ UNCHANGED <<call, pc>>
    /\ UNCHANGED <<progvars, active, report, pass, bsize, blk, okblocks,
                   denied1, wpvars>>

\* one pass through the body of the for loop of gec_write; after a break
\* the statement behind the loop runs in the same step
WriteIteration ==
    /\ pc = "loop" /\ call.op = "write" /\ idx < call.b
    /\ \E rc \in Status :
        LET written == Min(call.b - idx, call.m) IN
        /\ log' = Append(log, Cmd("FLASH_WRITE", call.a + idx, written, rc))
        /\ IF rc = EC_LPC_RESULT_ACCESS_DENIED
           THEN /\ fwcopy' = gec_invalidate_copy(fwcopy, call.a, call.b)
                /\ need_2nd_pass' = 1
                /\ call' = [call EXCEPT !.ret = ACCESS_DENIED]
                /\ pc' = "done"
                /\ UNCHANGED <<try_latest_firmware, idx>>
           ELSE IF rc # 0
           THEN /\ try_latest_firmware' = 1
                /\ call' = [call EXCEPT !.ret = rc]
                /\ pc' = "done"
                /\ UNCHANGED <<fwcopy, need_2nd_pass, idx>>
           ELSE /\ idx' = idx + written
                /\ UNCHANGED <<fwcopy, need_2nd_pass, try_latest_firmware,
                               call, pc>>
    /\ UNCHANGED <<detected, active, report, pass, bsize, blk, okblocks,
                   denied1, wpvars>>

\* the loop test fails: gec_read returns rc, gec_write sets
\* try_latest_firmware and returns rc; rc is 0 here
LoopEnd ==
    /\ pc = "loop" /\ ~(idx < call.b)
    /\ pc' = "done"
    /\ call' = [call EXCEPT !.ret = 0]
    /\ try_latest_firmware' =
           IF call.op = "write" THEN 1 ELSE try_latest_firmware
    /\ UNCHANGED <<detected, fwcopy, need_2nd_pass, active, log, report,
                   pass, bsize, blk, okblocks, denied1, wpvars, idx>>

NextLoop ==
    \/ ReadIteration
    \/ WriteIteration
    \/ LoopEnd

SpecLoop == InitLoop /\ [][NextLoop]_vars /\ WF_vars(NextLoop)

----------------------------------------------------------------------------
(* Helpers of the properties *)

\* the registry holds a region for copy j that [addr, addr+len) intersects
Overlaps(fw, j, addr, len) ==
    Intersects(fw[j].offset, fw[j].size, addr, len)

Fresh(fw) == {j \in Copies : fw[j].flags # 0}

\* the order in which a jump to no named copy looks for a fresh one
JumpOrder == <<EC_LPC_IMAGE_RO, EC_LPC_IMAGE_RW_A, EC_LPC_IMAGE_RW_B>>

\* the first fresh copy in JumpOrder; there is one
FirstFresh(fw) ==
    JumpOrder[CHOOSE k \in 1..3 :
        /\ JumpOrder[k] \in Fresh(fw)
        /\ \A m \in 1..(k - 1) : JumpOrder[m] \notin Fresh(fw)]

\* the copies the reboot commands of a log name, in order
Targets(l) == [k \in 1..Len(Commands(l)) |-> Commands(l)[k].a]

\* the blocks of the update run that hold a byte of copy j
RegionBlocks(j) ==
    {b \in 0..(NBlocks - 1) :
        Intersects(DeviceLayout[j].offset, DeviceLayout[j].size,
                   b * bsize, bsize)}

----------------------------------------------------------------------------
(* C1 *)

\* C1: two-pass coverage.  Against a device that denies exactly the erase
\* and write commands overlapping its active copy, once the run prepare ->
\* pass 1 -> gec_need_2nd_pass -> pass 2 has ended its second pass, every
\* block of each of the three copies has been erased and written with
\* success in one of the passes, and every block denied in pass 1 was
\* written in pass 2.
C1_TwoPassCoverage ==
    (pass = 2 /\ pc \in {"finish", "done"}) =>
        /\ \A j \in Copies : RegionBlocks(j) \subseteq okblocks
        /\ denied1 \subseteq okblocks

\* the second pass has ended and pass 1 had denied a block
C1_Witness ==
    /\ pass = 2
    /\ pc = "done"
    /\ denied1 # {}
    /\ \A j \in Copies : RegionBlocks(j) \subseteq okblocks

----------------------------------------------------------------------------
(* C2 *)

\* C2: an erase whose command is answered with AccessDenied marks every
\* region intersecting [offset, offset+length) stale, sets need_2nd_pass,
\* leaves try_latest_firmware as it was, issues no further command and
\* returns ACCESS_DENIED.
C2_EraseDenied ==
    [][(call'.op = "erase" /\ log'[1].rc = EC_LPC_RESULT_ACCESS_DENIED) =>
        /\ \A j \in Copies :
              Overlaps(fwcopy, j, call'.a, call'.b) => fwcopy'[j].flags = 0
        /\ need_2nd_pass' = 1
        /\ try_latest_firmware' = try_latest_firmware
        /\ log' = <<Cmd("FLASH_ERASE", call'.a, call'.b,
                        EC_LPC_RESULT_ACCESS_DENIED)>>
        /\ call'.ret = ACCESS_DENIED]_vars

\* a denied erase of [1, 3) has marked RO and RW-A stale and left RW-B fresh
C2_Witness ==
    /\ call.op = "erase" /\ call.ret = ACCESS_DENIED
    /\ call.a = 1 /\ call.b = 2
    /\ fwcopy[EC_LPC_IMAGE_RO] = [offset |-> 0, size |-> 2, flags |-> 0]
    /\ fwcopy[EC_LPC_IMAGE_RW_A] = [offset |-> 2, size |-> 1, flags |-> 0]
    /\ fwcopy[EC_LPC_IMAGE_RW_B].flags = 1
    /\ need_2nd_pass = 1
    /\ try_latest_firmware = 1

----------------------------------------------------------------------------
(* C3 *)

\* C3: when a chunk of a write is answered with AccessDenied, that chunk is
\* the last command of the call, every region intersecting the whole
\* requested range [addr, addr+nbytes) is marked stale, need_2nd_pass is
\* set and ACCESS_DENIED is returned.
C3_WriteDenied ==
    [][(/\ call'.op = "write"
        /\ \E k \in DOMAIN log' : log'[k].rc = EC_LPC_RESULT_ACCESS_DENIED) =>
        /\ \A k \in DOMAIN log' :
              log'[k].rc = EC_LPC_RESULT_ACCESS_DENIED => k = Len(log')
        /\ \A j \in Copies :
              Overlaps(fwcopy, j, call'.a, call'.b) => fwcopy'[j].flags = 0
        /\ need_2nd_pass' = 1
        /\ call'.ret = ACCESS_DENIED]_vars

\* a write of [1, 3) in chunks of 1 whose second chunk, in RW-A, was denied:
\* RO, which only the first chunk touched, is stale too
C3_Witness ==
    /\ call.op = "write" /\ call.ret = ACCESS_DENIED
    /\ call.a = 1 /\ call.b = 2 /\ call.m = 1
    /\ Len(log) = 2
    /\ log[1].rc = EC_LPC_RESULT_SUCCESS
    /\ log[2] = Cmd("FLASH_WRITE", 2, 1, EC_LPC_RESULT_ACCESS_DENIED)
    /\ fwcopy[EC_LPC_IMAGE_RO] = [offset |-> 0, size |-> 2, flags |-> 0]
    /\ fwcopy[EC_LPC_IMAGE_RW_A] = [offset |-> 2, size |-> 1, flags |-> 0]
    /\ fwcopy[EC_LPC_IMAGE_RW_B].flags = 1
    /\ need_2nd_pass = 1

----------------------------------------------------------------------------
(* C4 *)

\* C4 as claimed: a jump to no named copy names the first fresh copy in the
\* order RO, RW-A, RW-B in its reboot command, returns failure if and only
\* if no copy is fresh, and then issues no command.
C4_JumpFailsIffNoFresh ==
    (call.op = "jump" /\ call.a = EC_LPC_IMAGE_UNKNOWN) =>
        /\ (call.ret # 0) <=> (Fresh(fwcopy) = {})
        /\ Fresh(fwcopy) = {} => log = <<>>
        /\ Fresh(fwcopy) # {} =>
              /\ Len(Commands(log)) = 1
              /\ Commands(log)[1].cmd = "REBOOT_EC"
              /\ Commands(log)[1].a = FirstFresh(fwcopy)

\* C4 amended: a jump to no named copy issues no command and returns
\* failure when no copy is fresh; otherwise it issues one reboot command
\* naming the first fresh copy in the order RO, RW-A, RW-B and returns that
\* command's status, so it fails if and only if no copy is fresh or the
\* reboot command fails.
C4_JumpUnspecified ==
    (call.op = "jump" /\ call.a = EC_LPC_IMAGE_UNKNOWN) =>
        /\ Fresh(fwcopy) = {} => (log = <<>> /\ call.ret # 0)
        /\ Fresh(fwcopy) # {} =>
              /\ Len(Commands(log)) = 1
              /\ Commands(log)[1].cmd = "REBOOT_EC"
              /\ Commands(log)[1].a = FirstFresh(fwcopy)
              /\ call.ret = Commands(log)[1].rc

\* a jump to no named copy with RO stale and RW-A, RW-B fresh named RW-A
C4_Witness ==
    /\ call.op = "jump" /\ call.a = EC_LPC_IMAGE_UNKNOWN
    /\ Fresh(fwcopy) = {EC_LPC_IMAGE_RW_A, EC_LPC_IMAGE_RW_B}
    /\ fwcopy[EC_LPC_IMAGE_RO].size > 0
    /\ Targets(log) = <<EC_LPC_IMAGE_RW_A>>
    /\ call.ret = 0

----------------------------------------------------------------------------
(* C5 *)

\* C5 as claimed: with the controller detected, gec_need_2nd_pass returns 0
\* and issues no command when need_2nd_pass is 0; when it is set, it
\* returns a negative value if no copy is fresh and otherwise a positive
\* value after one reboot command naming the first fresh copy.
C5_PositiveWhenFresh ==
    (call.op = "need_2nd_pass" /\ detected) =>
        IF need_2nd_pass = 0 THEN call.ret = 0 /\ log = <<>>
        ELSE IF Fresh(fwcopy) = {} THEN call.ret < 0
        ELSE /\ call.ret > 0
             /\ Len(Commands(log)) = 1
             /\ Commands(log)[1].cmd = "REBOOT_EC"
             /\ Commands(log)[1].a = FirstFresh(fwcopy)

\* C5 amended: with the controller detected, gec_need_2nd_pass returns 0
\* and issues no command when need_2nd_pass is 0; when it is set and no
\* copy is fresh it issues no command and returns a negative value;
\* otherwise it issues one reboot command naming the first fresh copy and
\* returns a positive value if that command succeeds, a negative value if
\* it fails.
C5_Need2ndPass ==
    (call.op = "need_2nd_pass" /\ detected) =>
        IF need_2nd_pass = 0 THEN call.ret = 0 /\ log = <<>>
        ELSE IF Fresh(fwcopy) = {} THEN call.ret < 0 /\ log = <<>>
        ELSE /\ Len(Commands(log)) = 1
             /\ Commands(log)[1].cmd = "REBOOT_EC"
             /\ Commands(log)[1].a = FirstFresh(fwcopy)
             /\ Commands(log)[1].rc = 0 => call.ret > 0
             /\ Commands(log)[1].rc # 0 => call.ret < 0

\* gec_need_2nd_pass with RO stale and RW-A fresh rebooted to RW-A and asked
\* for the second pass
C5_Witness ==
    /\ call.op = "need_2nd_pass" /\ detected
    /\ need_2nd_pass = 1
    /\ fwcopy[EC_LPC_IMAGE_RO].flags = 0
    /\ fwcopy[EC_LPC_IMAGE_RW_A].flags = 1
    /\ Targets(log) = <<EC_LPC_IMAGE_RW_A>>
    /\ call.ret > 0

----------------------------------------------------------------------------
(* C6 *)

\* a reboot command of the log that named RW-A or RW-B and succeeded
JumpedToRW(l) ==
    \E k \in DOMAIN Commands(l) :
        /\ Commands(l)[k].a \in {EC_LPC_IMAGE_RW_A, EC_LPC_IMAGE_RW_B}
        /\ Commands(l)[k].rc = 0

\* C6: with the controller detected and try_latest_firmware set, gec_finish
\* issues only reboot commands, in the order RW-B, RW-A, RO.  RW-B is
\* attempted exactly if fresh; if its jump succeeds it is the last command
\* and gec_finish returns 0.  Otherwise RW-A is attempted exactly if fresh,
\* with the same end if it succeeds.  Otherwise RO is attempted, whatever
\* its flag, and gec_finish returns that command's status.
C6_FinishOrder ==
    (call.op = "finish" /\ detected /\ try_latest_firmware # 0) =>
        LET C == Commands(log)
            T == Targets(log)
            n == Len(Commands(log))
        IN /\ \A k \in 1..n : C[k].cmd = "REBOOT_EC"
           /\ \A k, m \in 1..n : k < m => T[k] > T[m]
           /\ (\E k \in 1..n : T[k] = EC_LPC_IMAGE_RW_B)
                 <=> fwcopy[EC_LPC_IMAGE_RW_B].flags # 0
           /\ (\E k \in 1..n : T[k] = EC_LPC_IMAGE_RW_A)
                 <=> /\ fwcopy[EC_LPC_IMAGE_RW_A].flags # 0
                     /\ ~\E k \in 1..n : /\ T[k] = EC_LPC_IMAGE_RW_B
                                         /\ C[k].rc = 0
           /\ \A k \in 1..n :
                 (T[k] # EC_LPC_IMAGE_RO /\ C[k].rc = 0)
                     => (k = n /\ call.ret = 0)
           /\ ~JumpedToRW(log) =>
                 /\ n >= 1
                 /\ T[n] = EC_LPC_IMAGE_RO
                 /\ call.ret = C[n].rc

\* gec_finish tried RW-B, then RW-A, then a stale RO, and returned the
\* failure of the RO jump
C6_Witness ==
    /\ call.op = "finish" /\ detected /\ try_latest_firmware # 0
    /\ Targets(log) = <<EC_LPC_IMAGE_RW_B, EC_LPC_IMAGE_RW_A, EC_LPC_IMAGE_RO>>
    /\ fwcopy[EC_LPC_IMAGE_RO].flags = 0
    /\ call.ret = EC_LPC_RESULT_INVALID_PARAM

----------------------------------------------------------------------------
(* C7 *)

\* C7: a freshness flag that is clear stays clear in every step that is
\* not a gec_prepare: no read, erase, write, jump, gec_need_2nd_pass,
\* gec_finish or write-protect call sets it.
C7_StaleStaysStale ==
    [][\A j \in Copies :
          (fwcopy[j].flags = 0 /\ fwcopy'[j].flags # 0)
              => call'.op = "prepare"]_vars

\* RO was populated and marked stale, and is still stale after a write that
\* succeeded
C7_Witness ==
    /\ call.op = "write" /\ call.ret = 0 /\ call.b > 0
    /\ fwcopy[EC_LPC_IMAGE_RO] = [offset |-> 0, size |-> 2, flags |-> 0]
    /\ Overlaps(fwcopy, EC_LPC_IMAGE_RO, call.a, call.b)

----------------------------------------------------------------------------
(* C8 *)

\* C8: try_latest_firmware is set only by an erase that returned success or
\* by a write all of whose chunks were answered with success; a write with
\* a chunk answered otherwise leaves it as it was.
C8_TryLatestOnlyOnSuccess ==
    [][try_latest_firmware' # try_latest_firmware =>
        \/ call'.op = "erase" /\ call'.ret = 0
        \/ /\ call'.op = "write"
           /\ \A k \in DOMAIN log' : log'[k].rc = EC_LPC_RESULT_SUCCESS]_vars

----------------------------------------------------------------------------
(* C9 *)

----------------------------------------------------------------------------
(* C10 *)

\* the last area of the map with the given name; there is one
LastNamed(areas, name) ==
    areas[CHOOSE k \in DOMAIN areas :
        /\ areas[k].name = name
        /\ \A m \in DOMAIN areas : areas[m].name = name => m <= k]

\* C10: with the controller detected, gec_prepare on an image with a region
\* map sets, for each of RO, RW-A, RW-B with an exactly-named entry in the
\* map, the region's offset and size to the entry's (the last one so named)
\* and its flag to fresh; it issues exactly one reboot command, naming RO,
\* and returns that command's status.
C10_PrepareParsable ==
    (call.op = "prepare" /\ detected /\ Images[call.a].found) =>
        LET areas == Images[call.a].areas IN
        /\ \A j \in Copies :
              (\E k \in DOMAIN areas : areas[k].name = sections[j]) =>
                  fwcopy[j] =
                      [offset |-> LastNamed(areas, sections[j]).offset,
                       size |-> LastNamed(areas, sections[j]).size,
                       flags |-> 1]
        /\ Len(Commands(log)) = 1
        /\ Commands(log)[1].cmd = "REBOOT_EC"
        /\ Commands(log)[1].a = EC_LPC_IMAGE_RO
        /\ call.ret = Commands(log)[1].rc

\* gec_prepare on the image that names only RW-A (twice): RW-A has the
\* last entry's range and is fresh, RO is not populated, and the one reboot
\* command, which named RO, failed
C10_Witness ==
    /\ call.op = "prepare" /\ detected /\ call.a = 2
    /\ fwcopy[EC_LPC_IMAGE_RW_A] = [offset |-> 1, size |-> 2, flags |-> 1]
    /\ fwcopy[EC_LPC_IMAGE_RO].size = 0
    /\ Targets(log) = <<EC_LPC_IMAGE_RO>>
    /\ call.ret = EC_LPC_RESULT_ERROR

----------------------------------------------------------------------------
(* C11 *)

\* the bytes a command covers
Bytes(e) == e.a .. (e.a + e.b - 1)

\* ceil(n / m)
CeilDiv(n, m) == (n + m - 1) \div m

\* C11: built without checksum verification, a gec_read or gec_write of N
\* bytes at offset o with a maximum chunk size max >= 1, whose commands all
\* succeed, issues exactly ceil(N / max) commands (none for N = 0), all of
\* the call's own kind; each has a size in 1..max, their offsets are strictly
\* increasing, their ranges are pairwise disjoint and cover exactly
\* [o, o + N), so no write command touches a byte outside the request.
C11_ChunksTile ==
    (/\ call.op \in {"read", "write"}
     /\ \A k \in DOMAIN log : log[k].rc = EC_LPC_RESULT_SUCCESS) =>
        /\ Len(log) = CeilDiv(call.b, call.m)
        /\ \A k \in DOMAIN log :
              /\ log[k].cmd = (IF call.op = "read" THEN "FLASH_READ"
                               ELSE "FLASH_WRITE")
              /\ log[k].b \in 1..call.m
        /\ \A k, m \in DOMAIN log :
              k < m => /\ log[k].a < log[m].a
                       /\ Bytes(log[k]) \cap Bytes(log[m]) = {}
        /\ UNION {Bytes(log[k]) : k \in DOMAIN log} =
               call.a .. (call.a + call.b - 1)
        /\ call.ret = 0

\* a 3-byte write and a 3-byte read in chunks of at most 2: two commands,
\* of 2 bytes and of 1 byte
C11_Witness ==
    /\ call.op \in {"read", "write"}
    /\ call.a = 1 /\ call.b = 3 /\ call.m = 2
    /\ Len(log) = 2
    /\ log[1].rc = 0 /\ log[2].rc = 0
    /\ log[1].a = 1 /\ log[1].b = 2
    /\ log[2].a = 3 /\ log[2].b = 1

----------------------------------------------------------------------------
(* C12 *)

\* the request [call'.a, call'.b) of the step overlaps the copy the device
\* executes from
TouchesActive ==
    Intersects(DeviceLayout[active].offset, DeviceLayout[active].size,
               call'.a, call'.b)

\* C12 as stated: for every erase or write call against the denying device
\* and every region other than the device's active copy, the region's flag
\* is the same after the call as before, also when the call's range extends
\* into the active copy; and a call whose range does not touch the active
\* copy returns success.
C12_NonActiveUntouched ==
    [][call'.op \in {"erase", "write"} =>
        /\ \A j \in Copies :
              j # active => fwcopy'[j].flags = fwcopy[j].flags
        /\ ~TouchesActive => call'.ret = 0]_vars

\* C12: for every erase or write call against the denying device, a call
\* whose range does not touch the device's active copy returns success and
\* leaves every flag as it was; a call whose range touches the active copy
\* leaves the flag of every region that its range does not intersect as it
\* was (the regions it intersects, active or not, are marked stale).
C12_UntouchedRegionsKeepFlag ==
    [][call'.op \in {"erase", "write"} =>
        /\ \A j \in Copies :
              ~Overlaps(fwcopy, j, call'.a, call'.b) =>
                  fwcopy'[j].flags = fwcopy[j].flags
        /\ ~TouchesActive =>
              /\ call'.ret = 0
              /\ fwcopy' = fwcopy
              /\ need_2nd_pass' = need_2nd_pass]_vars

\* the device runs RO; an erase of [1, 3), which extends from RO into RW-A,
\* was denied: RO and RW-A are stale, RW-B, which the range does not
\* intersect, is still fresh
C12_Witness ==
    /\ call.op = "erase" /\ call.a = 1 /\ call.b = 2
    /\ active = EC_LPC_IMAGE_RO
    /\ call.ret = ACCESS_DENIED
    /\ \A j \in Copies : fwcopy[j].offset = DeviceLayout[j].offset
                         /\ fwcopy[j].size = DeviceLayout[j].size
    /\ fwcopy[EC_LPC_IMAGE_RO].flags = 0
    /\ fwcopy[EC_LPC_IMAGE_RW_A].flags = 0
    /\ fwcopy[EC_LPC_IMAGE_RW_B].flags = 1

----------------------------------------------------------------------------
(* C13 *)

\* C13: against a controller that stores the last range and enable value it
\* was sent, after set_range(o, l) and enable() returned success, a status()
\* whose two commands succeed issues GET_RANGE then GET_STATE, prints the
\* range (o, l) and write protect enabled (status 0x80, srp0 1), and returns
\* success; the controller still holds (o, l) and enabled.
C13_RoundTrip ==
    (/\ pc = "wp_done"
     /\ \A k \in DOMAIN log : log[k].rc = EC_LPC_RESULT_SUCCESS) =>
        /\ call.op = "wp_status" /\ call.ret = 0
        /\ log = <<Cmd("FLASH_WP_GET_RANGE", 0, 0, 0),
                   Cmd("FLASH_WP_GET_STATE", 0, 0, 0)>>
        /\ report = [printed |-> TRUE, value |-> 128, srp0 |-> 1,
                     enabled |-> TRUE,
                     start |-> wpreq.offset, len |-> wpreq.size]
        /\ wp = wpreq

\* the round trip for the range (3, 2) on a controller that held the range
\* (0, 0) or (0, MaxLen) with write protect off
C13_Witness ==
    /\ pc = "wp_done" /\ call.ret = 0
    /\ wpreq.offset = 3 /\ wpreq.size = 2
    /\ report.printed /\ report.start = 3 /\ report.len = 2
    /\ report.enabled

----------------------------------------------------------------------------
(* C14 *)

\* a flash command answered with a status that is fatal for its call: any
\* failure of a read command, and any failure other than a denial of an
\* erase or write command
Fatal(e) ==
    \/ /\ e.cmd = "FLASH_READ"
       /\ e.rc # EC_LPC_RESULT_SUCCESS
    \/ /\ e.cmd \in {"FLASH_ERASE", "FLASH_WRITE"}
       /\ e.rc \notin {EC_LPC_RESULT_SUCCESS, EC_LPC_RESULT_ACCESS_DENIED}

\* C14: in every gec_read, gec_block_erase and gec_write call, a command
\* answered with a fatal status is the last thing the call issues, the call
\* returns that status unchanged, and the call modifies no freshness flag
\* and not need_2nd_pass.
C14_FatalEndsCall ==
    [][call'.op \in {"read", "erase", "write"} =>
        \A k \in DOMAIN log' :
            Fatal(log'[k]) =>
                /\ k = Len(log')
                /\ call'.ret = log'[k].rc
                /\ fwcopy' = fwcopy
                /\ need_2nd_pass' = need_2nd_pass]_vars

----------------------------------------------------------------------------
(* C15 *)

\* the transport that answers the commands of a call as those of l were
\* answered
Replay(l) ==
    ScriptTransport([k \in DOMAIN Commands(l) |-> Commands(l)[k].rc])

\* C15: need_2nd_pass, once set, stays set through every later call, the
\* successful jumps of gec_need_2nd_pass included; and a gec_need_2nd_pass
\* call made right after another, with the transport answering as it did,
\* returns the same value and issues the same reboot command, naming the
\* same region.
C15_Need2ndPassStable ==
    [][/\ need_2nd_pass # 0 => need_2nd_pass' # 0
       /\ call'.op = "need_2nd_pass" =>
              LET again == gec_need_2nd_pass(detected', fwcopy',
                                             need_2nd_pass', Replay(log'))
              IN /\ again.ret = call'.ret
                 /\ again.log = log']_vars

\* a gec_need_2nd_pass call that jumped to RW-A (RO is stale) and returned
\* 1; need_2nd_pass is still set
C15_Witness ==
    /\ call.op = "need_2nd_pass" /\ call.ret = 1
    /\ need_2nd_pass = 1
    /\ fwcopy[EC_LPC_IMAGE_RO].flags = 0
    /\ Targets(log) = <<EC_LPC_IMAGE_RW_A>>
    /\ log[1].rc = EC_LPC_RESULT_SUCCESS

----------------------------------------------------------------------------
(* C16 *)

\* C16: every denied erase or write, which is what calls
\* gec_invalidate_copy(addr, len) with the range of the request, clears the
\* flag of exactly the regions whose range has a byte in common with
\* [addr, addr + len), for every addr and every len >= 0, and leaves the
\* other flags and every offset and size as they were.
C16_ExactIntersection ==
    [][(call'.op \in {"erase", "write"} /\ call'.ret = ACCESS_DENIED) =>
        \A j \in Copies :
            /\ fwcopy'[j].flags =
                   IF Overlaps(fwcopy, j, call'.a, call'.b) THEN 0
                   ELSE fwcopy[j].flags
            /\ fwcopy'[j].offset = fwcopy[j].offset
            /\ fwcopy'[j].size = fwcopy[j].size]_vars

----------------------------------------------------------------------------
(* C17 *)

\* C17: in every call, each reboot command is followed at once by the
\* usleep(1000000) delay, whatever its status, and there is no delay that
\* does not follow a reboot command, so nothing is issued between a reboot
\* command and the end of its delay.  A gec_jump_copy call that selects a
\* region issues exactly the reboot command and the delay and returns the
\* command's status unchanged; one that selects none (target unknown, no
\* region fresh) issues neither.
C17_DelayAfterReboot ==
    /\ \A k \in DOMAIN log :
          /\ log[k].cmd = "REBOOT_EC" =>
                 k + 1 \in DOMAIN log /\ log[k + 1] = Sleep
          /\ log[k] = Sleep => k > 1 /\ log[k - 1].cmd = "REBOOT_EC"
    /\ call.op = "jump" =>
          IF call.a = EC_LPC_IMAGE_UNKNOWN /\ Fresh(fwcopy) = {}
          THEN log = <<>>
          ELSE /\ Len(log) = 2
               /\ log[1].cmd = "REBOOT_EC"
               /\ call.ret = log[1].rc

\* a gec_jump_copy call whose reboot command failed: the delay follows and
\* the failure status is returned
C17_Witness ==
    /\ call.op = "jump"
    /\ Len(log) = 2
    /\ log[1].cmd = "REBOOT_EC" /\ log[1].rc = EC_LPC_RESULT_ERROR
    /\ log[2] = Sleep
    /\ call.ret = EC_LPC_RESULT_ERROR

----------------------------------------------------------------------------
(* C18 *)

\* C18: a gec_finish call made while try_latest_firmware is 0 returns 0,
\* issues no reboot command and no delay, and leaves the registry, its
\* flags and both session flags as they were.
C18_FinishWithoutTryLatest ==
    [][(call'.op = "finish" /\ try_latest_firmware = 0) =>
        /\ call'.ret = 0
        /\ log' = <<>>
        /\ UNCHANGED <<fwcopy, need_2nd_pass, try_latest_firmware>>]_vars

\* gec_finish on a detected controller with fresh copies and a denial
\* recorded, but no successful erase or write
C18_Witness ==
    /\ call.op = "finish" /\ detected
    /\ try_latest_firmware = 0
    /\ need_2nd_pass = 1
    /\ fwcopy[EC_LPC_IMAGE_RW_B].flags = 1
    /\ call.ret = 0 /\ log = <<>>

----------------------------------------------------------------------------
(* C19 *)

\* C19: built with SUPPORT_CHECKSUM, whenever the checksum of a read chunk
\* differs (the checksum command is followed by verify_checksum's delay),
\* the call goes on with a read command of the same offset and size as the
\* one just verified, for every maximum chunk size and every chunk, the
\* first included; so the chunk is not copied to the destination and the
\* call does not return before it is read again.
C19_RetrySameChunk ==
    call.op = "read" =>
        \A k \in DOMAIN log :
            log[k] = Delay =>
                /\ k + 1 \in DOMAIN log
                /\ log[k + 1].cmd = "FLASH_READ"
                /\ log[k + 1].a = log[k - 2].a
                /\ log[k + 1].b = log[k - 2].b

----------------------------------------------------------------------------
(* C20 *)

\* C20: gec_set_range, gec_enable_writeprotect and gec_disable_writeprotect
\* each issue exactly one command (SET_RANGE with the range asked for,
\* ENABLE with 1, ENABLE with 0) and return its status; gec_wp_status issues
\* GET_RANGE and, only if that succeeded, GET_STATE, returns the first
\* non-success status (0 if there is none), and issues no SET_RANGE and no
\* ENABLE command.  No command is issued twice.
C20_WriteProtectVerbatim ==
    /\ call.op = "wp_set_range" =>
          /\ log = <<Cmd("FLASH_WP_SET_RANGE", call.a, call.b, log[1].rc)>>
          /\ call.ret = log[1].rc
    /\ call.op = "wp_enable" =>
          /\ log = <<Cmd("FLASH_WP_ENABLE", 1, 0, log[1].rc)>>
          /\ call.ret = log[1].rc
    /\ call.op = "wp_disable" =>
          /\ log = <<Cmd("FLASH_WP_ENABLE", 0, 0, log[1].rc)>>
          /\ call.ret = log[1].rc
    /\ call.op = "wp_status" =>
          /\ log[1].cmd = "FLASH_WP_GET_RANGE"
          /\ IF log[1].rc # EC_LPC_RESULT_SUCCESS
             THEN Len(log) = 1 /\ call.ret = log[1].rc
             ELSE /\ Len(log) = 2
                  /\ log[2].cmd = "FLASH_WP_GET_STATE"
                  /\ call.ret = log[2].rc
          /\ report.printed <=> call.ret = 0
          /\ \A k \in DOMAIN log :
                log[k].cmd \notin {"FLASH_WP_SET_RANGE", "FLASH_WP_ENABLE"}

\* gec_wp_status whose GET_RANGE command failed with INVALID_PARAM: one
\* command, that status returned, nothing printed
C20_Witness ==
    /\ call.op = "wp_status"
    /\ log = <<Cmd("FLASH_WP_GET_RANGE", 0, 0, EC_LPC_RESULT_INVALID_PARAM)>>
    /\ call.ret = EC_LPC_RESULT_INVALID_PARAM
    /\ ~report.printed

----------------------------------------------------------------------------
(* C21 *)

\* the image has a region map with an entry named as copy j
Named(image, j) ==
    /\ image.found
    /\ \E k \in DOMAIN image.areas : image.areas[k].name = sections[j]

\* C21: every gec_prepare call leaves need_2nd_pass and try_latest_firmware
\* as they were, and leaves the offset, size and flag of every region that
\* has no entry of its name in the image as they were before the call.
C21_PrepareKeepsState ==
    [][call'.op = "prepare" =>
        /\ need_2nd_pass' = need_2nd_pass
        /\ try_latest_firmware' = try_latest_firmware
        /\ \A j \in Copies :
              ~Named(Images[call'.a], j) => fwcopy'[j] = fwcopy[j]]_vars

\* gec_prepare on the image that names only RW-A, after an earlier prepare
\* populated RO and a denial marked it stale: RO keeps its range and its
\* stale flag, RW-A has the new range, both session flags are still set
C21_Witness ==
    /\ call.op = "prepare" /\ detected /\ call.a = 2
    /\ fwcopy[EC_LPC_IMAGE_RO] = [offset |-> 0, size |-> 2, flags |-> 0]
    /\ fwcopy[EC_LPC_IMAGE_RW_A] = [offset |-> 1, size |-> 2, flags |-> 1]
    /\ fwcopy[EC_LPC_IMAGE_RW_B] = [offset |-> 3, size |-> 1, flags |-> 1]
    /\ need_2nd_pass = 1 /\ try_latest_firmware = 1

----------------------------------------------------------------------------
(* C22 *)

\* the stepwise call, once returned, has issued the commands and returns
\* the value of the one-step handler with the commands answered alike
StepwiseAgrees ==
    pc = "done" =>
        LET r == IF call.op = "read"
                 THEN gec_read(call.a, call.b, call.m, Replay(log))
                 ELSE gec_write(lookup_sections(fwcopy_init, ImageFull.areas),
                                0, 0, call.a, call.b, call.m, Replay(log))
        IN /\ r.ret = call.ret
           /\ r.log = log
           /\ call.op = "write" =>
                  /\ r.fwcopy = fwcopy
                  /\ r.need_2nd_pass = need_2nd_pass
                  /\ r.try_latest_firmware = try_latest_firmware

\* C22: built without checksum verification, every gec_read and gec_write
\* call returns, for every length N >= 0, every maximum chunk size >= 1
\* and every status of each command; it never has issued more than
\* ceil(N / max) commands, and every iteration that stays in the loop
\* leaves the loop index larger than it was.
C22_LoopTerminates ==
    /\ <>(pc = "done")
    /\ [](Len(log) <= CeilDiv(call.b, call.m))
    /\ [][pc' = "loop" => idx' > idx]_vars

\* a 3-byte write in chunks of 1 that ran to its end: three commands
C22_Witness ==
    /\ pc = "done" /\ call.op = "write"
    /\ call.b = 3 /\ call.m = 1
    /\ idx = 3 /\ Len(log) = 3
    /\ call.ret = 0

----------------------------------------------------------------------------
(* C23 *)

\* C23: without a detected controller, every gec_prepare, gec_need_2nd_pass
\* and gec_finish call returns 0, issues no command and no delay, and
\* leaves the registry, need_2nd_pass and try_latest_firmware as they were.
C23_NotDetected ==
    [][(call'.op \in {"prepare", "need_2nd_pass", "finish"} /\ ~detected) =>
        /\ call'.ret = 0
        /\ log' = <<>>
        /\ UNCHANGED <<fwcopy, need_2nd_pass, try_latest_firmware>>]_vars

\* gec_prepare on the image with the full map, without a detected
\* controller and with both session flags set by earlier erase and write
\* calls: nothing populated, nothing issued
C23_Witness ==
    /\ call.op = "prepare" /\ ~detected /\ call.a = 1
    /\ call.ret = 0 /\ log = <<>>
    /\ fwcopy = fwcopy_init
    /\ need_2nd_pass = 1 /\ try_latest_firmware = 1

----------------------------------------------------------------------------
(* C24 *)

\* C24: whatever maximum the programmer advertises, every FLASH_WRITE
\* command carries at most the 64 bytes its request record holds and every
\* FLASH_READ command asks for at most the 128 bytes its response record
\* holds, so no memcpy into p.data or out of r.data runs past the array.
C24_ChunksFitRecords ==
    \A k \in DOMAIN log :
        /\ log[k].cmd = "FLASH_WRITE" => log[k].b <= WDATA_SIZE
        /\ log[k].cmd = "FLASH_READ" => log[k].b <= RDATA_SIZE

====
